---- MODULE Spec2Model ----
(***************************************************************************)
(* Training / persistence lifecycle of the carl-torch estimator            *)
(* (src/ml/base.py: Estimator, ConditionalEstimator; src/ml/ratio.py:      *)
(* RatioEstimator).                                                        *)
(*                                                                         *)
(* One estimator instance (est), a RatioEstimator or an instance of a      *)
(* ConditionalEstimator subclass, the files under one path prefix (disk)   *)
(* and the outcome of the most recent call (last).                         *)
(*                                                                         *)
(* Numbers are fixed point in units of 1e-6: the float 1.0 is One, the     *)
(* standard-deviation floor 1.0e-6 is StdFloor.  Python None is the empty  *)
(* tuple, any other optional value v is <<v>>.  Arrays of shape (n, w) are *)
(* sequences of n rows of length w; feature indices are 0-based as in the  *)
(* source.                                                                 *)
(***************************************************************************)
EXTENDS Integers, Sequences, FiniteSets, TLC

VARIABLES est, disk, last

vars == <<est, disk, last>>

\* ------------------------------------------------------------------ bounds
MaxSamples == 2
MaxWidth == 2

\* ------------------------------------------------------------------ values
None == <<>>
Some(v) == <<v>>

One == 1000000
StdFloor == 1

Max(a, b) == IF a >= b THEN a ELSE b

\* the (n, w) array whose first column holds 0, 4, 8, ... and whose other columns
\* are constant 0 (zero variance)
Array(n, w) == [i \in 1..n |-> [j \in 1..w |-> IF j = 1 THEN (i - 1) * 4 ELSE 0]]

AllArrays == {Array(n, w) : n \in 2..MaxSamples, w \in 1..MaxWidth}

shape0(x) == Len(x)
shape1(x) == Len(x[1])

RECURSIVE SumTo(_, _)
SumTo(f, n) == IF n = 0 THEN 0 ELSE f[n] + SumTo(f, n - 1)

ISqrt(v) == CHOOSE r \in 0..v : r * r <= v /\ (r + 1) * (r + 1) > v

\* np.mean(x, axis=0)
np_mean(x) ==
    [j \in 1..shape1(x) |-> SumTo([i \in 1..Len(x) |-> x[i][j]], Len(x)) \div Len(x)]

\* np.std(x, axis=0): sqrt(n * sum(v^2) - sum(v)^2) / n
np_std(x) ==
    [j \in 1..shape1(x) |->
        LET n == Len(x)
            s == SumTo([i \in 1..n |-> x[i][j]], n)
            q == SumTo([i \in 1..n |-> x[i][j] * x[i][j]], n)
        IN  ISqrt(n * q - s * s) \div n]

\* np.maximum(v, c)
np_maximum(v, c) == [j \in 1..Len(v) |-> Max(v[j], c)]

np_zeros(n) == [j \in 1..n |-> 0]
np_ones(n) == [j \in 1..n |-> One]

\* numpy broadcasting of an (n, w) array against a vector of length k
Broadcastable(w, k) == w = k \/ w = 1 \/ k = 1

np_sub(x, v) ==
    LET w == shape1(x)
        k == Len(v)
    IN  [i \in 1..Len(x) |->
            [j \in 1..Max(w, k) |->
                x[i][IF w = 1 THEN 1 ELSE j] - v[IF k = 1 THEN 1 ELSE j]]]

\* in-place x /= v: the result must keep the shape of x
InPlaceOK(w, k) == k = w \/ k = 1

np_idiv(x, v) ==
    LET k == Len(v)
    IN  [i \in 1..Len(x) |->
            [j \in 1..shape1(x) |-> (x[i][j] * One) \div v[IF k = 1 THEN 1 ELSE j]]]

\* x[:, features]
IndexOK(x, features) == \A f \in 1..Len(features) : features[f] < shape1(x)
take(x, features) ==
    [i \in 1..Len(x) |-> [f \in 1..Len(features) |-> x[i][features[f] + 1]]]

\* ------------------------------------------------------------------ errors
\* an exception is named by its class, and by its message where one class is
\* raised in several places
NoModel == "ValueError: No model"
NoTypeInformation == "RuntimeError: Can't find estimator type information"
IncompatibleType == "RuntimeError: Saved model is an incompatible estimator type"
ObservablesMismatch == "RuntimeError: Number of observables does not match model"

\* ------------------------------------------------------------------ Estimator
Estimator__init__(features, n_hidden, activation, dropout_prob) ==
    [features |-> features,
     n_hidden |-> n_hidden,
     activation |-> activation,
     dropout_prob |-> dropout_prob,
     model |-> None,
     n_observables |-> None,
     n_parameters |-> None,
     x_scaling_means |-> None,
     x_scaling_stds |-> None]

\* initialize_input_transform without its "already defined" branch
initialize_input_transform_always(e, x, transform, overwrite) ==
    IF transform
    THEN [e EXCEPT !.x_scaling_means = Some(np_mean(x)),
                   !.x_scaling_stds = Some(np_maximum(np_std(x), StdFloor))]
    ELSE [e EXCEPT !.x_scaling_means = Some(np_zeros(shape0(x))),
                   !.x_scaling_stds = Some(np_ones(shape0(x)))]

initialize_input_transform(e, x, transform, overwrite) ==
    IF e.x_scaling_stds # None /\ e.x_scaling_means # None /\ ~overwrite
    THEN e
    ELSE IF transform
    THEN [e EXCEPT !.x_scaling_means = Some(np_mean(x)),
                   !.x_scaling_stds = Some(np_maximum(np_std(x), StdFloor))]
    ELSE LET n_parameters == shape0(x)
         IN  [e EXCEPT !.x_scaling_means = Some(np_zeros(n_parameters)),
                       !.x_scaling_stds = Some(np_ones(n_parameters))]

\* returns [err, x]: the scaled array, or the ValueError numpy raises when the
\* stored vectors do not broadcast against x
_transform_inputs(e, x) ==
    IF e.x_scaling_means # None /\ e.x_scaling_stds # None
    THEN LET m == e.x_scaling_means[1]
             s == e.x_scaling_stds[1]
         IN  IF ~Broadcastable(shape1(x), Len(m))
             THEN [err |-> "ValueError", x |-> x]
             ELSE LET x_scaled == np_sub(x, m)
                  IN  IF ~InPlaceOK(shape1(x_scaled), Len(s))
                      THEN [err |-> "ValueError", x |-> x]
                      ELSE [err |-> "none", x |-> np_idiv(x_scaled, s)]
    ELSE [err |-> "none", x |-> x]

\* ------------------------------------------------------------------ settings codec
\* JSON values of the settings record
JNull == [t |-> "null", i |-> 0, s |-> "", l |-> <<>>]
JInt(i) == [t |-> "int", i |-> i, s |-> "", l |-> <<>>]
JStr(s) == [t |-> "str", i |-> 0, s |-> s, l |-> <<>>]
JList(l) == [t |-> "list", i |-> 0, s |-> "", l |-> l]

\* json.dump of an optional int, an optional list
DumpOptInt(v) == IF v = None THEN JNull ELSE JInt(v[1])
DumpOptList(v) == IF v = None THEN JNull ELSE JList(v[1])

\* Python str(v), int(v) on a decoded JSON value
str(v) ==
    CASE v.t = "str" -> v.s
      [] v.t = "null" -> "None"
      [] v.t = "int" -> ToString(v.i)
      [] OTHER -> "[...]"

\* the exception int(settings[key]) / float(settings[key]) raises, "none" if it returns
NumErr(settings, key) ==
    IF key \notin DOMAIN settings THEN "KeyError"
    ELSE CASE settings[key].t = "int" -> "none"
           [] settings[key].t = "str" -> "ValueError"
           [] OTHER -> "TypeError"

\* the exception [int(item) for item in settings[key]] raises
ListErr(settings, key) ==
    IF key \notin DOMAIN settings THEN "KeyError"
    ELSE CASE settings[key].t = "list" -> "none"
           [] settings[key].t = "str" -> "ValueError"
           [] OTHER -> "TypeError"

Estimator_wrap_settings(e) ==
    [n_observables |-> DumpOptInt(e.n_observables),
     n_parameters |-> DumpOptInt(e.n_parameters),
     features |-> DumpOptList(e.features),
     n_hidden |-> JList(e.n_hidden),
     activation |-> JStr(e.activation),
     dropout_prob |-> JInt(e.dropout_prob)]

EstimatorType == "double_parameterized_ratio"

\* settings["estimator_type"] = ...: the record with one more key
_wrap_settings(e) ==
    LET settings == Estimator_wrap_settings(e)
    IN  [k \in DOMAIN settings \cup {"estimator_type"} |->
            IF k = "estimator_type" THEN JStr(EstimatorType) ELSE settings[k]]

\* self.features = settings["features"] and its two conversions
DecodeFeatures(v) ==
    IF v.t = "null" \/ (v.t = "str" /\ v.s = "None") THEN None ELSE Some(v.l)

FeaturesErr(settings) ==
    IF "features" \notin DOMAIN settings THEN "KeyError"
    ELSE LET v == settings["features"]
         IN  CASE v.t = "null" -> "none"
               [] v.t = "list" -> "none"
               [] v.t = "str" -> IF v.s = "None" THEN "none" ELSE "ValueError"
               [] OTHER -> "TypeError"

\* returns [err, est]; the assignments made before a raise stay
Estimator_unwrap_settings(e, settings) ==
    IF "estimator_type" \notin DOMAIN settings
    THEN [err |-> NoTypeInformation, est |-> e]
    ELSE IF NumErr(settings, "n_observables") # "none"
    THEN [err |-> NumErr(settings, "n_observables"), est |-> e]
    ELSE LET e1 == [e EXCEPT !.n_observables = Some(settings["n_observables"].i)] IN
    IF NumErr(settings, "n_parameters") # "none"
    THEN [err |-> NumErr(settings, "n_parameters"), est |-> e1]
    ELSE LET e2 == [e1 EXCEPT !.n_parameters = Some(settings["n_parameters"].i)] IN
    IF ListErr(settings, "n_hidden") # "none"
    THEN [err |-> ListErr(settings, "n_hidden"), est |-> e2]
    ELSE LET e3 == [e2 EXCEPT !.n_hidden = settings["n_hidden"].l] IN
    IF "activation" \notin DOMAIN settings
    THEN [err |-> "KeyError", est |-> e3]
    ELSE LET e4 == [e3 EXCEPT !.activation = str(settings["activation"])] IN
    IF FeaturesErr(settings) # "none"
    THEN [err |-> FeaturesErr(settings), est |-> e4]
    ELSE LET e5 == [e4 EXCEPT !.features = DecodeFeatures(settings["features"])] IN
    IF "dropout_prob" \notin DOMAIN settings
    THEN [err |-> "none", est |-> [e5 EXCEPT !.dropout_prob = 0]]
    ELSE IF NumErr(settings, "dropout_prob") # "none"
    THEN [err |-> NumErr(settings, "dropout_prob"), est |-> e5]
    ELSE [err |-> "none", est |-> [e5 EXCEPT !.dropout_prob = settings["dropout_prob"].i]]

\* RatioEstimator._unwrap_settings without its estimator_type comparison
_unwrap_settings_unchecked(e, settings) == Estimator_unwrap_settings(e, settings)

_unwrap_settings(e, settings) ==
    LET r == Estimator_unwrap_settings(e, settings)
    IN  IF r.err # "none" THEN r
        ELSE IF str(settings["estimator_type"]) # EstimatorType
        THEN [err |-> IncompatibleType, est |-> r.est]
        ELSE r

\* RatioModel(n_observables, n_hidden, activation, dropout_prob), freshly initialised
_create_model(e) ==
    [e EXCEPT !.model = Some([n_observables |-> e.n_observables,
                              n_hidden |-> e.n_hidden,
                              activation |-> e.activation,
                              dropout_prob |-> e.dropout_prob,
                              weights |-> "initial"])]

\* model.state_dict(): the layer sizes and the learned weights
state_dict(m) ==
    [n_observables |-> m.n_observables, n_hidden |-> m.n_hidden, weights |-> m.weights]

\* model.load_state_dict(sd) raises RuntimeError on a size mismatch
StateDictFits(m, sd) ==
    sd.n_observables = m.n_observables /\ sd.n_hidden = m.n_hidden

\* ------------------------------------------------------------------ persistence
\* the files <filename>_settings.json, _x_means.npy, _x_stds.npy, _state_dict.pt,
\* _theta_means.npy, _theta_stds.npy that load reads, and the directory
\* os.path.dirname(filename); _model.pt, which nothing reads, appears only in the
\* writes of save
NoFiles ==
    [dir |-> FALSE, settings |-> None, x_means |-> None, x_stds |-> None,
     state_dict |-> None, theta_means |-> None, theta_stds |-> None]

\* lines 76-100 of save: [err, disk, writes], writes lists the files in the order
\* they are written
SaveFiles(e, d, save_model) ==
    LET d1 == [d EXCEPT !.dir = TRUE]
        d2 == [d1 EXCEPT !.settings = Some(_wrap_settings(e))]
        scaling == e.x_scaling_stds # None /\ e.x_scaling_means # None
        d3 == IF scaling
              THEN [d2 EXCEPT !.x_means = e.x_scaling_means, !.x_stds = e.x_scaling_stds]
              ELSE d2
        d4 == [d3 EXCEPT !.state_dict = Some(state_dict(e.model[1]))]
    IN  [err |-> "none",
         disk |-> d4,
         writes |-> <<"settings">>
                    \o (IF scaling THEN <<"x_means", "x_stds">> ELSE <<>>)
                    \o <<"state_dict">>
                    \o (IF save_model THEN <<"model">> ELSE <<>>)]

\* save with create_missing_folders moved above the model check
save_folders_first(e, d, save_model) ==
    IF e.model = None
    THEN [err |-> NoModel, disk |-> [d EXCEPT !.dir = TRUE], writes |-> <<>>]
    ELSE SaveFiles(e, d, save_model)

\* returns [err, disk, writes]
save(e, d, save_model) ==
    IF e.model = None
    THEN [err |-> NoModel, disk |-> d, writes |-> <<>>]
    ELSE SaveFiles(e, d, save_model)

\* the scaling block of load without its except branch
LoadScaling_keep(e, d) ==
    IF d.x_means = None
    THEN e
    ELSE LET e1 == [e EXCEPT !.x_scaling_means = d.x_means]
         IN  IF d.x_stds = None THEN e1 ELSE [e1 EXCEPT !.x_scaling_stds = d.x_stds]

\* the try / except FileNotFoundError block of load
LoadScaling(e, d) ==
    IF d.x_means = None
    THEN [e EXCEPT !.x_scaling_means = None, !.x_scaling_stds = None]
    ELSE LET e1 == [e EXCEPT !.x_scaling_means = d.x_means]
         IN  IF d.x_stds = None
             THEN [e1 EXCEPT !.x_scaling_means = None, !.x_scaling_stds = None]
             ELSE [e1 EXCEPT !.x_scaling_stds = d.x_stds]

\* returns [err, est]
load(e, d) ==
    IF d.settings = None
    THEN [err |-> "FileNotFoundError", est |-> e]
    ELSE LET u == _unwrap_settings(e, d.settings[1])
         IN  IF u.err # "none" THEN u
             ELSE LET e1 == _create_model(u.est)
                      e2 == LoadScaling(e1, d)
                  IN  IF d.state_dict = None
                      THEN [err |-> "FileNotFoundError", est |-> e2]
                      ELSE IF ~StateDictFits(e2.model[1], d.state_dict[1])
                      THEN [err |-> "RuntimeError", est |-> e2]
                      ELSE [err |-> "none",
                            est |-> [e2 EXCEPT !.model[1].weights =
                                                   d.state_dict[1].weights]]

\* ------------------------------------------------------------------ ConditionalEstimator
\* an instance of a concrete subclass of ConditionalEstimator: the Estimator fields
\* and the two parameter-scaling fields
ConditionalEstimator__init__(features, n_hidden, activation, dropout_prob) ==
    [features |-> features,
     n_hidden |-> n_hidden,
     activation |-> activation,
     dropout_prob |-> dropout_prob,
     model |-> None,
     n_observables |-> None,
     n_parameters |-> None,
     x_scaling_means |-> None,
     x_scaling_stds |-> None,
     theta_scaling_means |-> None,
     theta_scaling_stds |-> None]

IsConditional(e) == "theta_scaling_means" \in DOMAIN e

\* initialize_parameter_transform with the floor left out
initialize_parameter_transform_nofloor(e, theta, transform, overwrite) ==
    IF e.x_scaling_stds # None /\ e.x_scaling_means # None /\ ~overwrite
    THEN e
    ELSE IF transform
    THEN [e EXCEPT !.theta_scaling_means = Some(np_mean(theta)),
                   !.theta_scaling_stds = Some(np_std(theta))]
    ELSE [e EXCEPT !.theta_scaling_means = None, !.theta_scaling_stds = None]

initialize_parameter_transform(e, theta, transform, overwrite) ==
    IF e.x_scaling_stds # None /\ e.x_scaling_means # None /\ ~overwrite
    THEN e
    ELSE IF transform
    THEN [e EXCEPT !.theta_scaling_means = Some(np_mean(theta)),
                   !.theta_scaling_stds = Some(np_maximum(np_std(theta), StdFloor))]
    ELSE [e EXCEPT !.theta_scaling_means = None, !.theta_scaling_stds = None]

\* returns [err, x]; means[np.newaxis, :] broadcasts as the vector does
_transform_parameters(e, theta) ==
    IF e.theta_scaling_means # None /\ e.theta_scaling_stds # None
    THEN LET m == e.theta_scaling_means[1]
             s == e.theta_scaling_stds[1]
         IN  IF ~Broadcastable(shape1(theta), Len(m))
             THEN [err |-> "ValueError", x |-> theta]
             ELSE LET theta_scaled == np_sub(theta, m)
                  IN  IF ~InPlaceOK(shape1(theta_scaled), Len(s))
                      THEN [err |-> "ValueError", x |-> theta]
                      ELSE [err |-> "none", x |-> np_idiv(theta_scaled, s)]
    ELSE [err |-> "none", x |-> theta]

\* the _create_model hook a concrete subclass supplies
Subclass_create_model(e) ==
    [e EXCEPT !.model = Some([n_observables |-> e.n_observables,
                              n_hidden |-> e.n_hidden,
                              activation |-> e.activation,
                              dropout_prob |-> e.dropout_prob,
                              weights |-> "initial"])]

\* the train a concrete subclass supplies: the model is created on first use and
\* fitted in place
Subclass_train(e) ==
    LET e1 == IF e.model = None THEN Subclass_create_model(e) ELSE e
    IN  [e1 EXCEPT !.model[1].weights = "trained"]

\* the parameter-scaling block of ConditionalEstimator.save
SaveTheta(e, r) ==
    IF e.theta_scaling_stds # None /\ e.theta_scaling_means # None
    THEN [err |-> "none",
          disk |-> [r.disk EXCEPT !.theta_means = e.theta_scaling_means,
                                  !.theta_stds = e.theta_scaling_stds],
          writes |-> r.writes \o <<"theta_means", "theta_stds">>]
    ELSE r

\* returns [err, disk, writes]
ConditionalEstimator_save(e, d, save_model) ==
    LET r == save(e, d, save_model)
    IN  IF r.err # "none" THEN r ELSE SaveTheta(e, r)

\* the try / except FileNotFoundError block of ConditionalEstimator.load
LoadThetaScaling(e, d) ==
    IF d.theta_means = None \/ d.theta_stds = None
    THEN [e EXCEPT !.theta_scaling_means = None, !.theta_scaling_stds = None]
    ELSE [e EXCEPT !.theta_scaling_means = d.theta_means,
                   !.theta_scaling_stds = d.theta_stds]

\* Estimator.load as a ConditionalEstimator subclass runs it: Estimator's decoder and
\* the subclass's model hook
Estimator_load(e, d) ==
    IF d.settings = None
    THEN [err |-> "FileNotFoundError", est |-> e]
    ELSE LET u == Estimator_unwrap_settings(e, d.settings[1])
         IN  IF u.err # "none" THEN u
             ELSE LET e1 == Subclass_create_model(u.est)
                      e2 == LoadScaling(e1, d)
                  IN  IF d.state_dict = None
                      THEN [err |-> "FileNotFoundError", est |-> e2]
                      ELSE IF ~StateDictFits(e2.model[1], d.state_dict[1])
                      THEN [err |-> "RuntimeError", est |-> e2]
                      ELSE [err |-> "none",
                            est |-> [e2 EXCEPT !.model[1].weights =
                                                   d.state_dict[1].weights]]

\* returns [err, est]
ConditionalEstimator_load(e, d) ==
    LET r == Estimator_load(e, d)
    IN  IF r.err # "none" THEN r
        ELSE [err |-> "none", est |-> LoadThetaScaling(r.est, d)]

\* ------------------------------------------------------------------ RatioEstimator.train
required_list == <<"X_train", "y_train", "w_train">>
optional_list == <<"X0_train", "w0_train", "X1_train", "w1_train">>

Range(f) == {f[i] : i \in DOMAIN f}

\* the names load_and_check is called on, in order
LoadedKeys(keys) ==
    LET present(k) == k \in keys
    IN  SelectSeq(required_list \o optional_list, present)

\* RatioTrainer.train fits the model in place and returns its result record
Trainer(e, x) == [err |-> "none", est |-> [e EXCEPT !.model[1].weights = "trained"]]

\* lines 253-320: package the data, create the model, losses, optimizer, fit
TrainFit(e, d, x) ==
    LET e1 == IF e.model = None THEN _create_model(e) ELSE e
    IN  IF d.w_none /\ ~({"X0_train", "X1_train"} \subseteq d.keys)
        THEN [err |-> "TypeError", est |-> e1]
        ELSE Trainer(e1, x)

\* train without its consistency check
Consistent_always(e, n_observables) == TRUE

\* line 248: the observable count of the batch against the model's
Consistent(e, n_observables) == n_observables = e.n_observables[1]

\* lines 236-251: feature restriction and the consistency check
TrainCheck(e, d, x, x_val) ==
    LET restricted == e.features # None
    IN  IF restricted /\ ~IndexOK(x, e.features[1])
        THEN [err |-> "IndexError", est |-> e]
        ELSE IF restricted /\ x_val # None /\ ~IndexOK(x_val[1], e.features[1])
        THEN [err |-> "IndexError", est |-> e]
        ELSE LET x1 == IF restricted THEN take(x, e.features[1]) ELSE x
                 n_observables == IF restricted THEN shape1(x1) ELSE shape1(d.X_train)
                 e1 == IF e.n_observables = None
                       THEN [e EXCEPT !.n_observables = Some(n_observables)]
                       ELSE e
             IN  IF ~Consistent(e1, n_observables)
                 THEN [err |-> ObservablesMismatch, est |-> e1]
                 ELSE TrainFit(e1, d, x1)

\* lines 190-234: scale features
TrainScale(e, d, scale_inputs) ==
    LET x == d.X_train
    IN  IF scale_inputs
        THEN LET e1 == initialize_input_transform(e, x, TRUE, FALSE)
                 t == _transform_inputs(e1, x)
                 tv == IF d.X_val # None
                       THEN _transform_inputs(e1, d.X_val[1])
                       ELSE [err |-> "none", x |-> x]
             IN  IF t.err # "none" THEN [err |-> t.err, est |-> e1]
                 ELSE IF tv.err # "none" THEN [err |-> tv.err, est |-> e1]
                 ELSE TrainCheck(e1, d, t.x,
                                 IF d.X_val # None THEN Some(tv.x) ELSE None)
        ELSE TrainCheck(initialize_input_transform(e, x, FALSE, FALSE), d, x, d.X_val)

\* train with the required-key test made after the loader loop
train_load_first(e, d, scale_inputs) ==
    IF ~d.isdict
    THEN [err |-> "TypeError", est |-> e, loaded |-> <<>>]
    ELSE IF ~(Range(required_list) \subseteq d.keys)
    THEN [err |-> "KeyError", est |-> e, loaded |-> LoadedKeys(d.keys)]
    ELSE LET r == TrainScale(e, d, scale_inputs)
         IN  [err |-> r.err, est |-> r.est, loaded |-> LoadedKeys(d.keys)]

\* returns [err, est, loaded]: loaded lists the entries of the caller's mapping that
\* load_and_check was called on and that were replaced by its result
train(e, d, scale_inputs) ==
    IF ~d.isdict
    THEN [err |-> "TypeError", est |-> e, loaded |-> <<>>]
    ELSE IF ~(Range(required_list) \subseteq d.keys)
    THEN [err |-> "KeyError", est |-> e, loaded |-> <<>>]
    ELSE LET loaded == LoadedKeys(d.keys)
             n_observables == shape1(d.X_train)
         IN  IF d.X_val # None /\ shape1(d.X_val[1]) # n_observables
             THEN [err |-> "AssertionError", est |-> e, loaded |-> loaded]
             ELSE LET r == TrainScale(e, d, scale_inputs)
                  IN  [err |-> r.err, est |-> r.est, loaded |-> loaded]

\* ------------------------------------------------------------------ evaluation
\* returns [err, loaded, ret]; self.scaling_method is read before _transform_inputs
\* is called and no class defines it
evaluate_ratio(e, x) ==
    IF e.model = None
    THEN [err |-> NoModel, loaded |-> <<>>, ret |-> None]
    ELSE [err |-> "AttributeError", loaded |-> <<"x">>, ret |-> None]

evaluate(e, x) == evaluate_ratio(e, x)

\* returns [err, loaded, ret]: ret is the array handed to evaluate_performance_model
evaluate_performance(e, x) ==
    IF e.model = None
    THEN [err |-> NoModel, loaded |-> <<>>, ret |-> None]
    ELSE LET t == _transform_inputs(e, x)
         IN  IF t.err # "none"
             THEN [err |-> t.err, loaded |-> <<"x", "y">>, ret |-> None]
             ELSE IF e.features # None /\ ~IndexOK(t.x, e.features[1])
             THEN [err |-> "IndexError", loaded |-> <<"x", "y">>, ret |-> None]
             ELSE [err |-> "none", loaded |-> <<"x", "y">>,
                   ret |-> Some(IF e.features # None
                                THEN take(t.x, e.features[1]) ELSE t.x)]

\* ------------------------------------------------------------------ inputs
\* constructor calls: the defaults, and a feature subset with the layers of train.py
Constructions ==
    {Estimator__init__(None, <<100>>, "tanh", 0),
     Estimator__init__(Some(<<0>>), <<8, 4, 2>>, "relu", 500000)}

\* constructor calls of a ConditionalEstimator subclass
ConditionalConstructions == {ConditionalEstimator__init__(None, <<100>>, "tanh", 0)}

\* input_data_dict: a non-mapping, mappings that lack required keys, and well-formed
\* mappings with or without the optional keys, a validation split and weights
TrainInputs ==
    {[isdict |-> FALSE, keys |-> {}, X_train |-> <<<<0>>>>, X_val |-> None,
      w_none |-> FALSE]}
    \cup {[isdict |-> TRUE, keys |-> k, X_train |-> <<<<0>>>>, X_val |-> None,
           w_none |-> FALSE] :
            k \in (SUBSET Range(required_list)) \ {Range(required_list)}}
    \cup {[isdict |-> TRUE, keys |-> Range(required_list) \cup o, X_train |-> x,
           X_val |-> v, w_none |-> w] :
            o \in {{}, Range(optional_list)},
            x \in AllArrays,
            v \in {None} \cup {Some(<<np_zeros(c)>>) : c \in 1..MaxWidth},
            w \in BOOLEAN}

\* mappings that lack required keys while holding all the optional ones
IncompleteInputs ==
    {[isdict |-> TRUE, keys |-> k \cup Range(optional_list), X_train |-> <<<<0>>>>,
      X_val |-> None, w_none |-> FALSE] :
        k \in (SUBSET Range(required_list)) \ {Range(required_list)}}

\* settings records found on disk that no save of this model wrote: a complete
\* record, one from before type tagging, one of another estimator class, and a
\* complete record of an estimator restricted to the first observable
CompleteSettings ==
    [n_observables |-> JInt(2),
     n_parameters |-> JInt(0),
     features |-> JNull,
     n_hidden |-> JList(<<100>>),
     activation |-> JStr("tanh"),
     dropout_prob |-> JInt(0),
     estimator_type |-> JStr(EstimatorType)]

SubsetSettings ==
    [n_observables |-> JInt(1),
     n_parameters |-> JInt(0),
     features |-> JList(<<0>>),
     n_hidden |-> JList(<<8, 4, 2>>),
     activation |-> JStr("relu"),
     dropout_prob |-> JInt(500000),
     estimator_type |-> JStr(EstimatorType)]

Without(settings, key) == [k \in DOMAIN settings \ {key} |-> settings[k]]

UntaggedSettings == Without(CompleteSettings, "estimator_type")

OtherClassSettings == [CompleteSettings EXCEPT !.estimator_type = JStr("parameterized_ratio")]

\* the state dict of a trained network of the sizes the settings record names
StateDictFor(settings) ==
    [n_observables |-> Some(settings.n_observables.i),
     n_hidden |-> settings.n_hidden.l,
     weights |-> "trained"]

\* scaling vectors over two observables
ForeignScaling == <<4, 4>>

File(settings, means, stds, sd) ==
    [dir |-> TRUE, settings |-> Some(settings), x_means |-> means, x_stds |-> stds,
     state_dict |-> sd, theta_means |-> None, theta_stds |-> None]

\* the files found under the prefix that no save of this model wrote: complete
\* sets, sets lacking one or both scaling files or the state dict, and sets whose
\* settings record lacks the type tag or carries another class's
PlacedFiles ==
    {File(s, Some(ForeignScaling), Some(ForeignScaling), Some(StateDictFor(s))) :
        s \in {CompleteSettings, SubsetSettings, UntaggedSettings, OtherClassSettings}}
    \cup {File(CompleteSettings, m, sd, Some(StateDictFor(CompleteSettings))) :
            m \in {None, Some(ForeignScaling)}, sd \in {None, Some(ForeignScaling)}}
    \cup {File(CompleteSettings, Some(ForeignScaling), Some(ForeignScaling), None)}

\* the outcome of a call: the operation and the exception it raised ("none" if it
\* returned)
Call(op, err) == [op |-> op, err |-> err]

\* ------------------------------------------------------------------ state machine
\* the program holds one estimator, a RatioEstimator or an instance of a
\* ConditionalEstimator subclass
Init ==
    /\ est \in {Estimator__init__(None, <<100>>, "tanh", 0)} \cup ConditionalConstructions
    /\ disk = NoFiles
    /\ last = Call("__init__", "none")

\* the estimator is constructed anew, of the class it had
Construct ==
    \E e \in IF IsConditional(est) THEN ConditionalConstructions ELSE Constructions :
        /\ est' = e
        /\ last' = Call("__init__", "none")
        /\ UNCHANGED disk

\* files placed under the prefix by something other than this estimator's save
PlaceFiles ==
    \E d \in PlacedFiles :
        /\ disk' = d
        /\ last' = Call("files", "none")
        /\ UNCHANGED est

Train ==
    \E d \in TrainInputs, scale_inputs \in BOOLEAN :
        LET r == train(est, d, scale_inputs)
        IN  /\ ~IsConditional(est)
            /\ est' = r.est
            /\ last' = Call("train", r.err)
            /\ UNCHANGED disk

EvaluateRatio ==
    \E x \in AllArrays :
        /\ ~IsConditional(est)
        /\ last' = Call("evaluate_ratio", evaluate_ratio(est, x).err)
        /\ UNCHANGED <<est, disk>>

Evaluate ==
    \E x \in AllArrays :
        /\ ~IsConditional(est)
        /\ last' = Call("evaluate", evaluate(est, x).err)
        /\ UNCHANGED <<est, disk>>

EvaluatePerformance ==
    \E x \in AllArrays :
        /\ ~IsConditional(est)
        /\ last' = Call("evaluate_performance", evaluate_performance(est, x).err)
        /\ UNCHANGED <<est, disk>>

\* save and load as the estimator's class defines them
ClassSave(e, d, save_model) ==
    IF IsConditional(e) THEN ConditionalEstimator_save(e, d, save_model)
    ELSE save(e, d, save_model)

ClassLoad(e, d) == IF IsConditional(e) THEN ConditionalEstimator_load(e, d) ELSE load(e, d)

Save ==
    \E save_model \in BOOLEAN :
        LET r == ClassSave(est, disk, save_model)
        IN  /\ disk' = r.disk
            /\ last' = Call("save", r.err)
            /\ UNCHANGED est

Load ==
    LET r == ClassLoad(est, disk)
    IN  /\ est' = r.est
        /\ last' = Call("load", r.err)
        /\ UNCHANGED disk

InitializeInputTransform ==
    \E x \in AllArrays, transform \in BOOLEAN, overwrite \in BOOLEAN :
        /\ est' = initialize_input_transform(est, x, transform, overwrite)
        /\ last' = Call("initialize_input_transform", "none")
        /\ UNCHANGED disk

TransformInputs ==
    \E x \in AllArrays :
        /\ last' = Call("_transform_inputs", _transform_inputs(est, x).err)
        /\ UNCHANGED <<est, disk>>

InitializeParameterTransform ==
    \E theta \in AllArrays, transform \in BOOLEAN, overwrite \in BOOLEAN :
        /\ IsConditional(est)
        /\ est' = initialize_parameter_transform(est, theta, transform, overwrite)
        /\ last' = Call("initialize_parameter_transform", "none")
        /\ UNCHANGED disk

TransformParameters ==
    \E theta \in AllArrays :
        /\ IsConditional(est)
        /\ last' = Call("_transform_parameters", _transform_parameters(est, theta).err)
        /\ UNCHANGED <<est, disk>>

\* train of the ConditionalEstimator subclass
SubclassTrain ==
    /\ IsConditional(est)
    /\ est' = Subclass_train(est)
    /\ last' = Call("subclass_train", "none")
    /\ UNCHANGED disk

Next ==
    \/ Construct
    \/ PlaceFiles
    \/ Train
    \/ EvaluateRatio
    \/ Evaluate
    \/ EvaluatePerformance
    \/ Save
    \/ Load
    \/ InitializeInputTransform
    \/ TransformInputs
    \/ InitializeParameterTransform
    \/ TransformParameters
    \/ SubclassTrain

Spec == Init /\ [][Next]_vars

\* ------------------------------------------------------------------ claims
\* the settings record under the prefix lacks estimator_type or carries a tag other
\* than RatioEstimator's
TypeProblem(d) ==
    /\ d.settings # None
    /\ \/ "estimator_type" \notin DOMAIN d.settings[1]
       \/ str(d.settings[1]["estimator_type"]) # EstimatorType

\* the configuration fields the settings record carries
ConfigFields(e) ==
    <<e.n_observables, e.n_parameters, e.features, e.n_hidden, e.activation,
      e.dropout_prob>>

\* C1: after a successful train, save(P) followed by load(P) on a fresh
\* RatioEstimator completes without error and the fresh instance has the saved
\* instance's n_observables, n_parameters, features, n_hidden, activation and
\* dropout_prob.
C1_RoundTrip ==
    (~IsConditional(est) /\ last.op = "train" /\ last.err = "none") =>
        \A fresh \in Constructions :
            LET s == save(est, disk, FALSE)
                r == load(fresh, s.disk)
            IN  /\ s.err = "none"
                /\ r.err = "none"
                /\ ConfigFields(r.est) = ConfigFields(est)

\* every call of the four operations that could be made in a state without a model
\* raises the "no model" error, writes nothing and loads nothing
C2_NoModelState ==
    est.model = None =>
        /\ \A save_model \in BOOLEAN :
            LET r == ClassSave(est, disk, save_model)
            IN  r.err = NoModel /\ r.disk = disk /\ r.writes = <<>>
        /\ \A x \in AllArrays : ~IsConditional(est) =>
            /\ evaluate_ratio(est, x).err = NoModel /\ evaluate_ratio(est, x).loaded = <<>>
            /\ evaluate(est, x).err = NoModel /\ evaluate(est, x).loaded = <<>>
            /\ evaluate_performance(est, x).err = NoModel
            /\ evaluate_performance(est, x).loaded = <<>>

\* the call that is made in a state without a model fails and changes nothing
C2_NoModelStep ==
    (/\ est.model = None
     /\ last'.op \in {"save", "evaluate_ratio", "evaluate", "evaluate_performance"})
        => (last'.err = NoModel /\ est' = est /\ disk' = disk)

\* C2: while the model is none, save, evaluate_ratio, evaluate and
\* evaluate_performance raise the "no model" error, write no file or directory,
\* load no data and leave every estimator field as it was.
C2_NoModelCallsFail == [](C2_NoModelState) /\ [][C2_NoModelStep]_vars

\* one of the four operations has just failed on an estimator without a model
C2_Witness ==
    /\ est.model = None
    /\ last.op \in {"save", "evaluate_ratio", "evaluate", "evaluate_performance"}
    /\ last.err = NoModel

\* an input of the width the estimator was configured for
EstablishedWidth(e, x) ==
    IF e.features = None
    THEN shape1(x) = e.n_observables[1]
    ELSE IndexOK(x, e.features[1])

\* C3: after a successful train or load, evaluate_ratio(x) and evaluate(x) on an
\* input of the established width complete without error and hand the scaled,
\* feature-restricted input to the ratio-evaluation collaborator.
C3_EvaluationPermitted ==
    (~IsConditional(est) /\ last.op \in {"train", "load"} /\ last.err = "none") =>
        \A x \in AllArrays :
            EstablishedWidth(est, x) =>
                /\ evaluate_ratio(est, x).err = "none"
                /\ evaluate(est, x).err = "none"

\* C4: a load that fails because the settings record lacks estimator_type or
\* carries a foreign estimator_type leaves every estimator field as it was.
C4_ConfigErrorFrame ==
    [][(~IsConditional(est) /\ last'.op = "load" /\ TypeProblem(disk)) => est' = est]_vars

\* C5: load of a settings record that lacks estimator_type, or whose
\* estimator_type is not "double_parameterized_ratio", fails, and that load call
\* constructs no model.
C5_CodecCompatibility ==
    [][(~IsConditional(est) /\ last'.op = "load" /\ TypeProblem(disk))
            => (last'.err # "none" /\ est'.model = est.model)]_vars

\* a load has just been refused for a settings record tagged by another class
C5_Witness ==
    /\ ~IsConditional(est)
    /\ last.op = "load"
    /\ last.err = IncompatibleType
    /\ TypeProblem(disk)
    /\ str(disk.settings[1]["estimator_type"]) = "parameterized_ratio"

\* the observable count train compares with n_observables: the columns of X_train,
\* or the number of selected features
RestrictedCount(e, d) ==
    IF e.features = None THEN shape1(d.X_train) ELSE Len(e.features[1])

\* C6 as stated: once n_observables is set by a successful train or load, a train
\* call whose X_train has another number of columns fails and n_observables keeps
\* its value, whatever features and scale_inputs are.
C6_DimensionLock ==
    (~IsConditional(est) /\ last.op \in {"train", "load"} /\ last.err = "none") =>
        \A d \in TrainInputs, scale_inputs \in BOOLEAN :
            shape1(d.X_train) # est.n_observables[1] =>
                LET r == train(est, d, scale_inputs)
                IN  r.err # "none" /\ r.est.n_observables = est.n_observables

\* C6 amended: once n_observables is set, a train call whose observable count after
\* feature restriction (the columns of X_train when features is none, the number of
\* selected features otherwise) differs from it fails and n_observables keeps its
\* value, for either value of scale_inputs.
C6_DimensionLockRestricted ==
    (~IsConditional(est) /\ est.n_observables # None) =>
        \A d \in TrainInputs, scale_inputs \in BOOLEAN :
            RestrictedCount(est, d) # est.n_observables[1] =>
                LET r == train(est, d, scale_inputs)
                IN  r.err # "none" /\ r.est.n_observables = est.n_observables

\* a train call on a configured estimator has just failed the consistency check
C6_Witness ==
    /\ last.op = "train"
    /\ last.err = ObservablesMismatch
    /\ est.model # None

\* C7: a train call that fails on a shape mismatch (validation split width, or
\* observable count against the established n_observables) leaves scaling stats,
\* n_observables and model as they were before the call.
C7_ShapeMismatchFrame ==
    (~IsConditional(est) /\ last.op \in {"train", "load"} /\ last.err = "none") =>
        \A d \in TrainInputs, scale_inputs \in BOOLEAN :
            LET r == train(est, d, scale_inputs)
            IN  r.err \in {"AssertionError", ObservablesMismatch} =>
                    /\ r.est.x_scaling_means = est.x_scaling_means
                    /\ r.est.x_scaling_stds = est.x_scaling_stds
                    /\ r.est.n_observables = est.n_observables
                    /\ r.est.model = est.model

\* C8: on an estimator without stats, initialize_input_transform(x,
\* transform=False) sets means = 0 and stds = 1 as vectors of length n_observables,
\* and a following _transform_inputs(x) returns x unchanged without error.
C8_IdentityTransform ==
    (est.x_scaling_means = None /\ est.x_scaling_stds = None) =>
        \A x \in AllArrays, overwrite \in BOOLEAN :
            LET e1 == initialize_input_transform(est, x, FALSE, overwrite)
            IN  /\ e1.x_scaling_means = Some(np_zeros(shape1(x)))
                /\ e1.x_scaling_stds = Some(np_ones(shape1(x)))
                /\ _transform_inputs(e1, x) = [err |-> "none", x |-> x]

\* the prefix holds a settings record that decodes and the state dict of a network
\* of the sizes it names
ValidFiles(d) ==
    /\ d.settings # None
    /\ d.state_dict # None
    /\ LET u == IF IsConditional(est)
                THEN Estimator_unwrap_settings(est, d.settings[1])
                ELSE _unwrap_settings(est, d.settings[1])
       IN  /\ u.err = "none"
           /\ StateDictFits(_create_model(u.est).model[1], d.state_dict[1])

\* both observable-scaling files are under the prefix
BothScalingFiles(d) == d.x_means # None /\ d.x_stds # None

\* C9: load on a prefix with a valid settings record and state dict but without
\* both observable-scaling files succeeds and leaves x_scaling_means and
\* x_scaling_stds absent, whatever stats the estimator held before.
C9_MissingArtifactTolerance ==
    (last.op = "load" /\ ValidFiles(disk) /\ ~BothScalingFiles(disk)) =>
        /\ last.err = "none"
        /\ est.x_scaling_means = None
        /\ est.x_scaling_stds = None

\* a load has just succeeded on a prefix holding only one of the two scaling files
C9_Witness ==
    /\ last.op = "load"
    /\ last.err = "none"
    /\ disk.x_means # None
    /\ disk.x_stds = None
    /\ est.x_scaling_means = None
    /\ est.x_scaling_stds = None

\* both observable scaling stats are set
StatsPresent(e) == e.x_scaling_means # None /\ e.x_scaling_stds # None

\* with stats present, no non-overwriting initialisation changes them
C10_NoOverwriteState ==
    StatsPresent(est) =>
        \A x \in AllArrays, transform \in BOOLEAN :
            LET e1 == initialize_input_transform(est, x, transform, FALSE)
            IN  /\ e1.x_scaling_means = est.x_scaling_means
                /\ e1.x_scaling_stds = est.x_scaling_stds

\* a train call made with stats present ends with the same stats
C10_TrainReuses ==
    (last'.op = "train" /\ StatsPresent(est)) =>
        /\ est'.x_scaling_means = est.x_scaling_means
        /\ est'.x_scaling_stds = est.x_scaling_stds

\* C10: while observable scaling stats are present, initialize_input_transform(x,
\* transform, overwrite=False) leaves both unchanged for every x and transform, and
\* a train call keeps the stats it found instead of recomputing them.
C10_ScalingNoOverwrite == [](C10_NoOverwriteState) /\ [][C10_TrainReuses]_vars

\* a train call has just succeeded with stats that no batch of its own produces
C10_Witness ==
    /\ last.op = "train"
    /\ last.err = "none"
    /\ est.x_scaling_means = Some(ForeignScaling)
    /\ est.x_scaling_stds = Some(ForeignScaling)

\* the required/optional key check of train rejects d
Malformed(d) == ~d.isdict \/ ~(Range(required_list) \subseteq d.keys)

\* C11: a train call whose input is not a mapping or lacks a required key fails
\* with TypeError / KeyError before load_and_check is called on any entry, before
\* the mapping is modified and with every estimator field unchanged; a mapping with
\* the required keys passes the check whether or not it has the optional keys.
C11_ValidationFirst ==
    ~IsConditional(est) =>
    \A d \in TrainInputs \cup IncompleteInputs, scale_inputs \in BOOLEAN :
        LET r == train(est, d, scale_inputs)
        IN  /\ Malformed(d) =>
                /\ r.err = (IF d.isdict THEN "KeyError" ELSE "TypeError")
                /\ r.loaded = <<>>
                /\ r.est = est
            /\ ~Malformed(d) =>
                /\ r.err # "KeyError"
                /\ r.loaded = LoadedKeys(d.keys)
                /\ Len(r.loaded) >= Len(required_list)

\* a train call on a configured estimator has just been refused for a missing key
C11_Witness ==
    /\ last.op = "train"
    /\ last.err = "KeyError"
    /\ est.model # None

\* every entry of the vector v is at least the floor
Floored(v) == \A j \in 1..Len(v) : v[j] >= StdFloor

\* both parameter scaling stats are set
ThetaStatsPresent(e) == e.theta_scaling_means # None /\ e.theta_scaling_stds # None

\* C12: whenever observable or parameter scaling stats are present every
\* standard-deviation entry is at least the floor 1e-6; a transform computed from a
\* batch gives exactly the floor for a zero-variance column, and the identity
\* branch gives 1 in every entry.
C12_ScalingInvariant ==
    /\ est.x_scaling_stds # None => Floored(est.x_scaling_stds[1])
    /\ (IsConditional(est) /\ est.theta_scaling_stds # None)
            => Floored(est.theta_scaling_stds[1])
    /\ \A x \in AllArrays :
        LET computed == initialize_input_transform(est, x, TRUE, TRUE).x_scaling_stds[1]
            identity == initialize_input_transform(est, x, FALSE, TRUE).x_scaling_stds[1]
        IN  /\ \A j \in 2..shape1(x) : computed[j] = StdFloor
            /\ \A j \in 1..Len(identity) : identity[j] = One
            /\ IsConditional(est) =>
                   LET theta == initialize_parameter_transform(est, x, TRUE, TRUE)
                   IN  \A j \in 2..shape1(x) : theta.theta_scaling_stds[1][j] = StdFloor

\* a conditional estimator holds observable and parameter stats computed from
\* batches with a zero-variance column
C12_Witness ==
    /\ IsConditional(est)
    /\ StatsPresent(est)
    /\ ThetaStatsPresent(est)
    /\ \E j \in 1..Len(est.x_scaling_stds[1]) : est.x_scaling_stds[1][j] = StdFloor
    /\ \E j \in 1..Len(est.theta_scaling_stds[1]) : est.theta_scaling_stds[1][j] = StdFloor

\* the step is a call of train or load that returned
SucceededTrainOrLoad == last'.op \in {"train", "subclass_train", "load"} /\ last'.err = "none"

\* the network a model handle refers to, whatever its weights
Handle(m) == [m EXCEPT !.weights = "any"]

\* C13: a call on an estimator without a model leaves it without a model unless it
\* is a train or load that completes successfully; once a model exists no call
\* removes it, and train keeps the model it found.
C13_LeavesUninitialized ==
    [][/\ (est.model = None /\ last'.op # "__init__" /\ ~SucceededTrainOrLoad)
            => est'.model = None
       /\ (est.model # None /\ last'.op # "__init__") => est'.model # None
       /\ (est.model # None /\ last'.op \in {"train", "subclass_train"})
            => Handle(est'.model[1]) = Handle(est.model[1])]_vars

\* C14: on a conditional estimator, initialize_parameter_transform(theta,
\* transform, overwrite) changes nothing exactly when both parameter stats exist
\* and overwrite is false, whatever the observable stats are; otherwise transform =
\* True sets the parameter stats computed from theta and transform = False sets
\* them to none.
C14_ParameterTransformContract ==
    IsConditional(est) =>
        \A theta \in AllArrays, transform \in BOOLEAN, overwrite \in BOOLEAN :
            LET e1 == initialize_parameter_transform(est, theta, transform, overwrite)
            IN  IF ThetaStatsPresent(est) /\ ~overwrite
                THEN e1 = est
                ELSE IF transform
                THEN e1 = [est EXCEPT
                             !.theta_scaling_means = Some(np_mean(theta)),
                             !.theta_scaling_stds =
                                 Some(np_maximum(np_std(theta), StdFloor))]
                ELSE e1 = [est EXCEPT !.theta_scaling_means = None,
                                      !.theta_scaling_stds = None]

\* C15: every successful save writes the settings record, then the observable
\* scaling files if those stats are present, then (conditional estimators) the
\* parameter scaling files if those stats are present, then the state dict, then
\* the full model if requested.
C15_SaveWriteOrder ==
    est.model # None =>
        \A save_model \in BOOLEAN :
            LET r == ClassSave(est, disk, save_model)
            IN  /\ r.err = "none"
                /\ r.writes =
                       <<"settings">>
                       \o (IF StatsPresent(est) THEN <<"x_means", "x_stds">> ELSE <<>>)
                       \o (IF IsConditional(est) /\ ThetaStatsPresent(est)
                           THEN <<"theta_means", "theta_stds">> ELSE <<>>)
                       \o <<"state_dict">>
                       \o (IF save_model THEN <<"model">> ELSE <<>>)

\* C16: when the last save to the prefix was of an estimator without observable
\* scaling stats, a load of the prefix into a fresh instance that completes leaves
\* the fresh instance without observable scaling stats, whatever the prefix held
\* before that save.
C16_AbsentScalingRoundTrip ==
    (last.op = "save" /\ last.err = "none" /\ ~StatsPresent(est)) =>
        \A fresh \in IF IsConditional(est) THEN ConditionalConstructions
                                           ELSE Constructions :
            LET r == ClassLoad(fresh, disk)
            IN  r.err = "none" =>
                    /\ r.est.x_scaling_means = None
                    /\ r.est.x_scaling_stds = None

====
